---------------------------- MODULE Spec2Model ----------------------------
(***************************************************************************)
(* Model of the two scrapers of the repository, scraper1.py and            *)
(* mayor_scraper.py: the listing walk (collect_municipality_links_from_page,*)
(* click_next_page, the pagination loop of main), the per-link extraction  *)
(* (extract_mayor_from_municipality) and the result collection of main.    *)
(*                                                                         *)
(* Text is modelled as a sequence of characters.  A character is a TLA+    *)
(* string: an ASCII character stands for itself, a Cyrillic letter is      *)
(* written as "~" followed by its transliteration ("~K" is the capital Ka, *)
(* "~k" the small one), so that no Cyrillic letter is in [A-Za-z].          *)
(***************************************************************************)
EXTENDS Integers, Sequences, FiniteSets, TLC

(***************************************************************************)
(* Characters                                                              *)
(***************************************************************************)
AsciiUpper == {"A", "B", "C", "D", "E", "F", "G", "H", "I", "J", "K", "L", "M",
               "N", "O", "P", "Q", "R", "S", "T", "U", "V", "W", "X", "Y", "Z"}

AsciiLower == {"a", "b", "c", "d", "e", "f", "g", "h", "i", "j", "k", "l", "m",
               "n", "o", "p", "q", "r", "s", "t", "u", "v", "w", "x", "y", "z"}

AsciiLetter == AsciiUpper \cup AsciiLower

Digit == {"0", "1", "2", "3", "4", "5", "6", "7", "8", "9"}

\* str.strip() and \s: the white space of the modelled texts
WhiteSpace == {" "}

\* [A-Za-z0-9._%+\-] of email_re
LocalCh == AsciiLetter \cup Digit \cup {".", "_", "%", "+", "-"}

\* [A-Za-z0-9.\-] of email_re
DomCh == AsciiLetter \cup Digit \cup {".", "-"}

\* The characters of the model in code point order (Python compares str by
\* code point): ASCII, then the Cyrillic capitals, then the Cyrillic smalls.
CodeOrder ==
    <<" ", "%", "+", ",", "-", ".", "/",
      "0", "1", "2", "3", "4", "5", "6", "7", "8", "9",
      ":", "<", "=", ">", "?", "@",
      "A", "B", "C", "D", "E", "F", "G", "H", "I", "J", "K", "L", "M",
      "N", "O", "P", "Q", "R", "S", "T", "U", "V", "W", "X", "Y", "Z",
      "_",
      "a", "b", "c", "d", "e", "f", "g", "h", "i", "j", "k", "l", "m",
      "n", "o", "p", "q", "r", "s", "t", "u", "v", "w", "x", "y", "z",
      "~A", "~B", "~E", "~I", "~K", "~O", "~P",
      "~a", "~b", "~v", "~d", "~e", "~i", "~k", "~l", "~m", "~n", "~o", "~p",
      "~r", "~s", "~t", "~ts", "~sht", "~ya">>

CyrUpper == {"~A", "~B", "~E", "~I", "~K", "~O", "~P"}

CyrLower == {"~a", "~b", "~v", "~d", "~e", "~i", "~k", "~l", "~m", "~n", "~o", "~p",
             "~r", "~s", "~t", "~ts", "~sht", "~ya"}

Ord(c) == CHOOSE i \in 1..Len(CodeOrder) : CodeOrder[i] = c

\* str.lower() on one character
LowerCh(c) ==
    CASE c \in AsciiUpper -> CodeOrder[Ord(c) + 27]
      [] c = "~A" -> "~a"
      [] c = "~B" -> "~b"
      [] c = "~E" -> "~e"
      [] c = "~I" -> "~i"
      [] c = "~K" -> "~k"
      [] c = "~O" -> "~o"
      [] c = "~P" -> "~p"
      [] OTHER -> c

(***************************************************************************)
(* Strings (sequences of characters)                                       *)
(***************************************************************************)
\* s[i:] with i counted from 1
From(s, i) == IF i > Len(s) THEN <<>> ELSE SubSeq(s, i, Len(s))

\* s[:i-1] with i counted from 1
Upto(s, i) == IF i <= 1 THEN <<>> ELSE SubSeq(s, 1, i - 1)

\* s.startswith(p) at position i
StartsAt(s, i, p) ==
    /\ i + Len(p) - 1 <= Len(s)
    /\ \A k \in 1..Len(p) : s[i + k - 1] = p[k]

\* the first position of p in s, 0 when p does not occur: s.find(p) + 1
IndexOf(s, p) ==
    IF \E i \in 1..Len(s) : StartsAt(s, i, p)
    THEN CHOOSE i \in 1..Len(s) :
            /\ StartsAt(s, i, p)
            /\ \A j \in 1..(i - 1) : ~StartsAt(s, j, p)
    ELSE 0

\* p in s
Contains(s, p) == IndexOf(s, p) # 0

\* s.lower()
Lower(s) == [i \in 1..Len(s) |-> LowerCh(s[i])]

\* s.strip()
Strip(s) ==
    IF \A i \in 1..Len(s) : s[i] \in WhiteSpace
    THEN <<>>
    ELSE LET a == CHOOSE i \in 1..Len(s) :
                     /\ s[i] \notin WhiteSpace
                     /\ \A j \in 1..(i - 1) : s[j] \in WhiteSpace
             b == CHOOSE i \in 1..Len(s) :
                     /\ s[i] \notin WhiteSpace
                     /\ \A j \in (i + 1)..Len(s) : s[j] \in WhiteSpace
         IN  SubSeq(s, a, b)

\* s.split(sep)[0] for a one-character sep
BeforeFirst(s, sep) ==
    IF Contains(s, <<sep>>) THEN Upto(s, IndexOf(s, <<sep>>)) ELSE s

\* s.replace(p, "") : every non-overlapping occurrence, left to right
RECURSIVE RemoveAll(_, _)
RemoveAll(s, p) ==
    IF ~Contains(s, p)
    THEN s
    ELSE LET i == IndexOf(s, p)
         IN  Upto(s, i) \o RemoveAll(From(s, i + Len(p)), p)

\* s < t as Python orders two str values
RECURSIVE StrLess(_, _)
StrLess(s, t) ==
    IF t = <<>> THEN FALSE
    ELSE IF s = <<>> THEN TRUE
    ELSE IF s[1] # t[1] THEN Ord(s[1]) < Ord(t[1])
    ELSE StrLess(Tail(s), Tail(t))

\* sorted(S) for a set of str
RECURSIVE Sorted(_)
Sorted(S) ==
    IF S = {} THEN <<>>
    ELSE LET m == CHOOSE x \in S : \A y \in S \ {x} : StrLess(x, y)
         IN  <<m>> \o Sorted(S \ {m})

\* the set of the elements of a sequence
Range(q) == {q[i] : i \in 1..Len(q)}

(***************************************************************************)
(* email_re = [A-Za-z0-9._%+\-]+@[A-Za-z0-9.\-]+\.[A-Za-z]{2,}             *)
(***************************************************************************)
\* the position after the longest run of characters of class C starting at i
RECURSIVE RunEnd(_, _, _)
RunEnd(s, i, C) ==
    IF i <= Len(s) /\ s[i] \in C THEN RunEnd(s, i + 1, C) ELSE i

\* email_re.match at position i: the position after the match, 0 for no match.
\* The local part is greedy and cannot give back (the character after a shorter
\* local part is a local character, not "@"); the domain is greedy and gives
\* back to the last "." that two letters follow; the final label is greedy.
MatchAt(s, i) ==
    LET a == RunEnd(s, i, LocalCh)
    IN  IF a = i \/ a > Len(s) \/ s[a] # "@"
        THEN 0
        ELSE LET d == RunEnd(s, a + 1, DomCh)
                 dots == {j \in (a + 2)..(d - 1) :
                             /\ s[j] = "."
                             /\ RunEnd(s, j + 1, AsciiLetter) >= j + 3}
             IN  IF dots = {}
                 THEN 0
                 ELSE LET j == CHOOSE x \in dots : \A y \in dots : y <= x
                      IN  RunEnd(s, j + 1, AsciiLetter)

\* email_re.search(s) is not None
Searches(s) == \E i \in 1..Len(s) : MatchAt(s, i) # 0

\* email_re.findall(s) from position i: the matches, left to right, not overlapping
RECURSIVE FindAllFrom(_, _)
FindAllFrom(s, i) ==
    IF i > Len(s) THEN <<>>
    ELSE LET e == MatchAt(s, i)
         IN  IF e = 0 THEN FindAllFrom(s, i + 1)
             ELSE <<SubSeq(s, i, e - 1)>> \o FindAllFrom(s, e)

\* find_emails_in_html(html): sorted(set(email_re.findall(html)))
find_emails_in_html(html) == Sorted(Range(FindAllFrom(html, 1)))

(***************************************************************************)
(* Listing pages: collect_municipality_links_from_page and click_next_page *)
(***************************************************************************)
\* "Общинска администрация", the phrase a qualifying link text contains
MARKER == <<"~O", "~b", "~sht", "~i", "~n", "~s", "~k", "~a", " ",
            "~a", "~d", "~m", "~i", "~n", "~i", "~s", "~t", "~r", "~a", "~ts", "~i", "~ya">>

\* "общинска администрация"
marker_lower == <<"~o", "~b", "~sht", "~i", "~n", "~s", "~k", "~a", " ",
                  "~a", "~d", "~m", "~i", "~n", "~i", "~s", "~t", "~r", "~a", "~ts", "~i", "~ya">>

\* An href is an origin ("" for a relative reference) and a path; BASE is the
\* origin of the directory.
BASE == "https://iisda.government.bg"

\* urljoin(BASE, href): a relative reference is resolved against BASE, an
\* absolute one is kept
urljoin(base, href) ==
    IF href.origin = "" THEN [origin |-> base, path |-> href.path] ELSE href

\* the test of the loop over soup.find_all("a", href=True), on the stripped text
\* (mutants) the test without its lower-case half, and a test every text passes
QualifiesExactCase(text) == Contains(text, MARKER)

QualifiesAnyText(text) == TRUE

Qualifies(text) == Contains(text, MARKER) \/ Contains(Lower(text), marker_lower)

\* links: the (text, full) pairs of the qualifying anchors, in document order;
\* an anchor with no href attribute (origin "none") is not among find_all's
RECURSIVE QualifyingLinks(_)
QualifyingLinks(anchors) ==
    IF anchors = <<>> THEN <<>>
    ELSE LET a == Head(anchors)
             text == Strip(a.text)
         IN  (IF a.href.origin # "none" /\ Qualifies(text)
              THEN <<[text |-> text, url |-> urljoin(BASE, a.href)]>>
              ELSE <<>>) \o QualifyingLinks(Tail(anchors))

\* the loop "for text, url in links: if url not in seen": appends to dedup the
\* links whose url is in neither seen nor an earlier link of the list
\* (mutants) no test of seen, and the later link replacing the earlier one
AppendAll(dedup, links) == dedup \o links

RECURSIVE AppendLastSeen(_, _)
AppendLastSeen(dedup, links) ==
    IF links = <<>> THEN dedup
    ELSE LET l == Head(links)
             kept == SelectSeq(dedup, LAMBDA d : d.url # l.url)
         IN  AppendLastSeen(Append(kept, l), Tail(links))

RECURSIVE AppendUnseen(_, _)
AppendUnseen(dedup, links) ==
    IF links = <<>> THEN dedup
    ELSE LET l == Head(links)
         IN  IF \E i \in 1..Len(dedup) : dedup[i].url = l.url
             THEN AppendUnseen(dedup, Tail(links))
             ELSE AppendUnseen(Append(dedup, l), Tail(links))

\* collect_municipality_links_from_page(driver) on a page with these anchors
collect_municipality_links_from_page(anchors) ==
    AppendUnseen(<<>>, QualifyingLinks(anchors))

\* What the page offers to click_next_page:
\*   "link"        find_element(By.LINK_TEXT) finds the element, the click works
\*   "xpath"       find_element raises, find_elements(By.XPATH) finds it, the click works
\*   "none"        find_element raises and find_elements returns []
\*   "find_error"  find_element and find_elements both raise
\*   "click_error" the element is found, scrollIntoView or click() raises
NextKinds == {"link", "xpath", "none", "find_error", "click_error"}

\* (mutant) the click is reported whatever happened
click_next_page_always(next) == TRUE

\* click_next_page(driver): True if clicked, False otherwise; never raises
click_next_page(next) == next \in {"link", "xpath"}

(***************************************************************************)
(* Detail pages.  A document is the sequence of its text nodes and anchors *)
(* in document order.  An element is a record:                             *)
(*   kind  "text" (a NavigableString) or "a" (an <a href=...> tag)         *)
(*   text  the string of a text node                                       *)
(*   ptag  the tag of the text node's parent ("h1", "h2", "td", "b", ...)  *)
(*   gtd   the parent is not a td and the parent's parent is one           *)
(*   html  "".join(str(x) for x in parent.find_all(recursive=True)): the   *)
(*         markup of the tags below the text node's parent                 *)
(*   sib   parent.find_next_sibling().get_text(" ", strip=True), empty     *)
(*         when there is no such sibling                                   *)
(*   psib  the same for parent.parent.find_next_sibling()                  *)
(*   href  the href attribute of an anchor                                 *)
(* A detail page is a record:                                              *)
(*   nav       "ok": driver.get(url) works; "retry": it raises once and    *)
(*             works when repeated; "down": it raises both times           *)
(*   doc       the document driver.page_source gives after the load        *)
(*   info      what the "Информация" control does: "absent" (the wait for it*)
(*             times out), "click_error" (click() raises), "inplace" (the  *)
(*             click reveals content in the document), "newtab" (the click *)
(*             opens a new window with the content)                        *)
(*   revealed  the document read after a click that worked                 *)
(***************************************************************************)
\* "Кмет на община"
TITLE == <<"~K", "~m", "~e", "~t", " ", "~n", "~a", " ", "~o", "~b", "~sht", "~i", "~n", "~a">>

\* "Кмет"
KMET == <<"~K", "~m", "~e", "~t">>

\* "Общ."
OBSHT == <<"~O", "~b", "~sht", ".">>

\* "Електронна поща"
LABEL == <<"~E", "~l", "~e", "~k", "~t", "~r", "~o", "~n", "~n", "~a", " ",
           "~p", "~o", "~sht", "~a">>

MAILTO == <<"m", "a", "i", "l", "t", "o", ":">>

\* len(candidate) < 200 in scraper1.py
NAME_MAX == 200

TextNodes(doc) == SelectSeq(doc, LAMBDA e : e.kind = "text")

Anchors(doc) == SelectSeq(doc, LAMBDA e : e.kind = "a")

\* the strings of a sequence joined by one space: soup.get_text(" ")
RECURSIVE JoinSpace(_)
JoinSpace(q) ==
    IF q = <<>> THEN <<>>
    ELSE IF Len(q) = 1 THEN q[1]
    ELSE q[1] \o <<" ">> \o JoinSpace(Tail(q))

PageText(doc) == JoinSpace([i \in 1..Len(TextNodes(doc)) |-> TextNodes(doc)[i].text])

\* the result dict both extractors start from
EmptyResult(url) == [municipality |-> <<>>, mayor |-> <<>>, emails |-> <<>>, url |-> url]

\* What a call of extract_mayor_from_municipality ends with: it returns result,
\* or an exception leaves it (raised)
Returned(r) == [raised |-> FALSE, result |-> r]

Raised(url) == [raised |-> TRUE, result |-> EmptyResult(url)]

(***************************************************************************)
(* scraper1.py: extract_mayor_from_municipality                            *)
(***************************************************************************)
\* soup.find(["h1","h2"]) and h1.get_text(strip=True)
Heading1(doc) ==
    LET hs == SelectSeq(TextNodes(doc), LAMBDA e : e.ptag \in {"h1", "h2"})
    IN  IF hs = <<>> THEN <<>> ELSE Strip(hs[1].text)

\* mayor_elements: the text nodes with "Кмет на община"; when there is none,
\* those with "Кмет" and without "Общ."
mayor_elements(doc) ==
    LET exact == SelectSeq(TextNodes(doc), LAMBDA e : Contains(e.text, TITLE))
    IN  IF exact # <<>> THEN exact
        ELSE SelectSeq(TextNodes(doc),
                       LAMBDA e : Contains(e.text, KMET) /\ ~Contains(e.text, OBSHT))

\* the candidate name next to one matched node: the parent's next sibling,
\* else the next sibling of the parent's parent; stripped
Candidate(node) == Strip(IF node.sib # <<>> THEN node.sib ELSE node.psib)

\* The loop "for text_node in mayor_elements": the emails of the parents' markup
\* are added node by node; the first candidate name of fewer than NAME_MAX
\* characters is taken and ends the loop (break)
\* (mutant) the loop goes on after a name is taken
RECURSIVE ScanNodesNoBreak(_, _)
ScanNodesNoBreak(nodes, emails) ==
    IF nodes = <<>> THEN [emails |-> emails, name |-> <<>>]
    ELSE LET n == Head(nodes)
             found == emails \cup Range(find_emails_in_html(n.html))
             c == Candidate(n)
             rest == ScanNodesNoBreak(Tail(nodes), found)
         IN  IF c # <<>> /\ Len(c) < NAME_MAX
             THEN [emails |-> rest.emails, name |-> c]
             ELSE rest

RECURSIVE ScanNodes(_, _)
ScanNodes(nodes, emails) ==
    IF nodes = <<>> THEN [emails |-> emails, name |-> <<>>]
    ELSE LET n == Head(nodes)
             found == emails \cup Range(find_emails_in_html(n.html))
             c == Candidate(n)
         IN  IF c # <<>> /\ Len(c) < NAME_MAX
             THEN [emails |-> found, name |-> c]
             ELSE ScanNodes(Tail(nodes), found)

\* strategy 1 of scraper1.py: the emails next to the official's title
StructuredEmails(doc) == ScanNodes(mayor_elements(doc), {}).emails

\* addr of one mailto href: href.split(":",1)[1].split("?")[0]
MailtoAddr(href) == BeforeFirst(From(href, Len(MAILTO) + 1), "?")

\* fallback 2: the addr of every mailto: link of the page that email_re.match accepts
MailtoEmails(doc) ==
    {MailtoAddr(a.href) : a \in {b \in Range(Anchors(doc)) :
        /\ StartsAt(b.href, 1, MAILTO)
        /\ MatchAt(MailtoAddr(b.href), 1) # 0}}

\* fallback 3: find_emails_in_html(soup.get_text(" "))
PageTextEmails(doc) == Range(find_emails_in_html(PageText(doc)))

\* the emails after the chain "if not mayor_emails: ..." of the fallbacks
\* (mutant) the fallbacks run without their "if not mayor_emails" guards
FallbackChainUnguarded(structured, doc) ==
    structured \cup MailtoEmails(doc) \cup PageTextEmails(doc)

FallbackChain(structured, doc) ==
    IF structured # {} THEN structured
    ELSE IF MailtoEmails(doc) # {} THEN MailtoEmails(doc)
    ELSE PageTextEmails(doc)

\* name_candidate_re = [А-ЯЁ][а-яё]+(?:\s+[А-ЯЁ][а-яё]+){1,2} : one capitalised
\* word at position i, the position after it, 0 for no match
WordAt(s, i) ==
    IF i <= Len(s) /\ s[i] \in CyrUpper /\ RunEnd(s, i + 1, CyrLower) > i + 1
    THEN RunEnd(s, i + 1, CyrLower)
    ELSE 0

\* white space and one more capitalised word from position i
MoreAt(s, i) ==
    LET w == RunEnd(s, i, WhiteSpace)
    IN  IF w = i THEN 0 ELSE WordAt(s, w)

\* name_candidate_re.match at position i: the position after the match
NameAt(s, i) ==
    LET a == WordAt(s, i)
        b == IF a = 0 THEN 0 ELSE MoreAt(s, a)
        c == IF b = 0 THEN 0 ELSE MoreAt(s, b)
    IN  IF b = 0 THEN 0 ELSE IF c = 0 THEN b ELSE c

\* name_candidate_re.search(s): m.group(0), empty for no match
NameSearch(s) ==
    IF \E i \in 1..Len(s) : NameAt(s, i) # 0
    THEN LET i == CHOOSE x \in 1..Len(s) :
                     NameAt(s, x) # 0 /\ \A y \in 1..(x - 1) : NameAt(s, y) = 0
         IN  SubSeq(s, i, NameAt(s, i) - 1)
    ELSE <<>>

\* step 4: the first name in a text node with "Кмет"
NameFromBlocks(doc) ==
    LET hits == SelectSeq(TextNodes(doc),
                    LAMBDA e : Contains(e.text, KMET) /\ NameSearch(Strip(e.text)) # <<>>)
    IN  IF hits = <<>> THEN <<>> ELSE NameSearch(Strip(hits[1].text))

\* driver.get(url), repeated once in the except branch: whether the call is left
\* by the second failure
\* (mutant) the second failure is swallowed too
NavRaisesNever(nav) == FALSE

NavRaises(nav) == nav = "down"

\* the part of extract_mayor_from_municipality after the page is loaded
Chain1(url, d) ==
    LET scan == ScanNodes(mayor_elements(d.doc), {})
        emails == FallbackChain(scan.emails, d.doc)
        name == IF scan.name # <<>> THEN scan.name ELSE NameFromBlocks(d.doc)
    IN  Returned([municipality |-> Heading1(d.doc),
                  mayor |-> name,
                  emails |-> Sorted(emails),
                  url |-> url])

\* (mutant) a page with no title node ends the call with an exception
Extract1AbortOnMiss(url, d) ==
    IF NavRaises(d.nav) \/ mayor_elements(d.doc) = <<>> THEN Raised(url) ELSE Chain1(url, d)

\* extract_mayor_from_municipality(driver, url) of scraper1.py on page d
Extract1(url, d) == IF NavRaises(d.nav) THEN Raised(url) ELSE Chain1(url, d)

(***************************************************************************)
(* mayor_scraper.py: extract_mayor_from_municipality                       *)
(***************************************************************************)
\* soup.find("h1") and header.get_text(strip=True), on the document first loaded
Heading2(doc) ==
    LET hs == SelectSeq(TextNodes(doc), LAMBDA e : e.ptag = "h1")
    IN  IF hs = <<>> THEN <<>> ELSE Strip(hs[1].text)

\* the document of the second BeautifulSoup(driver.page_source): the revealed one
\* when the click on "Информация" worked (in place, or in the new window the
\* driver is switched to), the loaded one otherwise
Reparsed(d) == IF d.info \in {"inplace", "newtab"} THEN d.revealed ELSE d.doc

\* the least position of a set of positions, 0 for the empty set: what
\* soup.find and find_next return is the first match in document order
First(S) == IF S = {} THEN 0 ELSE CHOOSE k \in S : \A j \in S : k <= j

\* email_text of one mailto anchor: href.replace("mailto:", "").split("?")[0].strip()
MailtoText(href) == Strip(BeforeFirst(RemoveAll(href, MAILTO), "?"))

\* the positions from i on of the anchors whose href contains "mailto:", and of
\* the text nodes email_re finds a match in
MailtoFrom(doc, i) == {k \in i..Len(doc) : doc[k].kind = "a" /\ Contains(doc[k].href, MAILTO)}

MatchingTextFrom(doc, i) == {k \in i..Len(doc) : doc[k].kind = "text" /\ Searches(doc[k].text)}

LabelAt(doc) == First({k \in 1..Len(doc) : doc[k].kind = "text" /\ Contains(doc[k].text, LABEL)})

\* (mutant) the mailto link and the text are looked for with no label found
LabelEmailUnguarded(doc) ==
    LET m == First(MailtoFrom(doc, 1))
        t == First(MatchingTextFrom(doc, 1))
    IN  IF m # 0 THEN MailtoText(doc[m].href)
        ELSE IF t # 0 THEN Strip(doc[t].text)
        ELSE <<>>

\* email_text: label is the first text node with "Електронна поща"; then the first
\* following anchor whose href contains "mailto:", else the first following text
\* node email_re finds a match in, stripped.  The elements that follow the label's
\* parent begin with the label itself (the label is its parent's first string).
\* The last branch, find_next_sibling(text=email_re), is reached only when no
\* following text node matches, and a next sibling is a following node: it
\* yields nothing.
LabelEmail(doc) ==
    LET l == LabelAt(doc)
        m == First(MailtoFrom(doc, l))
        t == First(MatchingTextFrom(doc, l))
    IN  IF l = 0 THEN <<>>
        ELSE IF m # 0 THEN MailtoText(doc[m].href)
        ELSE IF t # 0 THEN Strip(doc[t].text)
        ELSE <<>>

\* result["mayor"]: the cell after the td around the first "Кмет на община"
MayorCell(doc) ==
    LET k == First({i \in 1..Len(doc) : doc[i].kind = "text" /\ Contains(doc[i].text, TITLE)})
    IN  IF k = 0 THEN <<>>
        ELSE IF doc[k].ptag = "td" THEN Strip(doc[k].sib)
        ELSE IF doc[k].gtd THEN Strip(doc[k].psib)
        ELSE <<>>

\* extract_mayor_from_municipality(driver, url) of mayor_scraper.py on page d
Extract2(url, d) ==
    IF NavRaises(d.nav) THEN Raised(url)
    ELSE LET email_text == LabelEmail(Reparsed(d))
         IN  Returned([municipality |-> Heading2(d.doc),
                       mayor |-> MayorCell(Reparsed(d)),
                       emails |-> IF email_text # <<>> THEN <<email_text>> ELSE <<>>,
                       url |-> url])

\* len(driver.window_handles) after the call: the click on "Информация" of a
\* page with info "newtab" opens one more window; scraper1.py never clicks
HandlesAfter(p, d, handles) ==
    IF p = "mayor_scraper" /\ ~NavRaises(d.nav) /\ d.info = "newtab"
    THEN handles + 1
    ELSE handles

\* The driver's active window after the call, as its place in window_handles:
\* "if len(driver.window_handles) > 1: switch_to.window(window_handles[-1])",
\* and nothing switches back
ActiveAfter(p, d, handles, act) ==
    IF p = "mayor_scraper" /\ ~NavRaises(d.nav) /\ HandlesAfter(p, d, handles) > 1
    THEN HandlesAfter(p, d, handles)
    ELSE act

Progs == {"scraper1", "mayor_scraper"}

Extract(prog, url, d) == IF prog = "scraper1" THEN Extract1(url, d) ELSE Extract2(url, d)

(***************************************************************************)
(* The pages the modelled site serves                                      *)
(***************************************************************************)
\* the longest listing page of a run, the longest listing page given to
\* collect_municipality_links_from_page alone, and the longest detail document
MaxAnchors == 2

MaxPageAnchors == 3

MaxElems == 3

\* the most windows the browser has open in a run
MaxWindows == 2

\* all sequences over S of at most n elements
SeqsUpTo(S, n) == UNION {[1..k -> S] : k \in 0..n}

Rel(path) == [origin |-> "", path |-> path]

Abs(path) == [origin |-> BASE, path |-> path]

Url(path) == [origin |-> BASE, path |-> path]

\* the toponym that follows the marker phrase in a link text
LinkText(name) == MARKER \o <<" ", "-", " ">> \o name

\* Anchors of listing pages: the entries A, B and C; B under a second text (all
\* lower case, with white space around it) and an absolute href; and a link
\* of the page's navigation, "Община", whose text lacks the phrase
AnchorA == [text |-> LinkText(<<"A">>), href |-> Rel("A")]

AnchorB == [text |-> LinkText(<<"B">>), href |-> Rel("B")]

AnchorC == [text |-> LinkText(<<"C">>), href |-> Rel("C")]

AnchorB2 == [text |-> <<" ">> \o marker_lower \o <<" ", "b", " ">>, href |-> Abs("B")]

AnchorNav == [text |-> <<"~O", "~b", "~sht", "~i", "~n", "~a">>, href |-> Rel("N")]

\* an <a> with the phrase and no href, and one to another origin
AnchorNoHref == [text |-> LinkText(<<"A">>), href |-> [origin |-> "none", path |-> ""]]

AnchorFar == [text |-> LinkText(<<"A">>),
              href |-> [origin |-> "https://example.org", path |-> "A"]]

MainAnchors == {AnchorA, AnchorB, AnchorC, AnchorB2, AnchorNav}

ListingPages == SeqsUpTo(MainAnchors, MaxAnchors)

CollectAnchors == {AnchorA, AnchorB, AnchorB2, AnchorNav, AnchorNoHref, AnchorFar}

CollectPages == SeqsUpTo(CollectAnchors, MaxPageAnchors)

\* Elements of detail documents
E1 == <<"a", "@", "x", ".", "b", "g">>

E2 == <<"b", "@", "y", ".", "b", "g">>

\* "Иван Петров"
PERSON == <<"~I", "~v", "~a", "~n", " ", "~P", "~e", "~t", "~r", "~o", "~v">>

TextNode(text, ptag) ==
    [kind |-> "text", text |-> text, ptag |-> ptag, gtd |-> FALSE,
     html |-> <<>>, sib |-> <<>>, psib |-> <<>>, href |-> <<>>]

AnchorTag(href) ==
    [kind |-> "a", text |-> <<>>, ptag |-> "", gtd |-> FALSE,
     html |-> <<>>, sib |-> <<>>, psib |-> <<>>, href |-> href]

\* <h1>A</h1>
ElHeading == TextNode(<<" ", "A", " ">>, "h1")

\* <td>Кмет на община</td><td>Иван Петров</td>
ElTitleRow == [TextNode(TITLE, "td") EXCEPT !.sib = PERSON]

\* <td>Кмет на община<a href=mailto:b@y.bg></a></td>, no cell after it
ElTitleMail ==
    [TextNode(TITLE, "td") EXCEPT
        !.html = <<"<", "a", " ", "h", "r", "e", "f", "=">> \o MAILTO \o E2 \o <<">">>]

\* <td><b>Кмет</b> Иван Петров</td> with an address in the markup below <b>'s parent
ElKmet == [TextNode(KMET \o <<" ">> \o PERSON, "b") EXCEPT !.gtd = TRUE, !.html = E1]

\* a title whose next sibling is a long block of text (NAME_MAX characters)
ElTitleLong == [TextNode(TITLE, "td") EXCEPT !.sib = [i \in 1..NAME_MAX |-> "x"]]

\* <b>Електронна поща:</b>
ElLabel == TextNode(LABEL \o <<":">>, "b")

\* Електронна поща: b@y.bg in one string
ElLabelMail == TextNode(LABEL \o <<":", " ">> \o E2, "td")

\* " b@y.bg " as a string of its own
ElMailText == TextNode(<<" ">> \o E2 \o <<" ">>, "td")

\* two addresses in one string
ElTwoMails == TextNode(E2 \o <<",", " ">> \o E1, "p")

\* <a href="mailto:a@x.bg">
ElMailto == AnchorTag(MAILTO \o E1)

\* <a href="mailto:a@x.bg,b@y.bg?subject=s">: two recipients
ElMailtoTwo == AnchorTag(MAILTO \o E1 \o <<",">> \o E2 \o <<"?", "s">>)

\* <a href="/contact">
ElLink == AnchorTag(<<"/", "c">>)

Elements == {ElHeading, ElTitleRow, ElTitleMail, ElKmet, ElTitleLong, ElLabel,
             ElLabelMail, ElMailText, ElTwoMails,
             ElMailto, ElMailtoTwo, ElLink}

Docs == SeqsUpTo(Elements, MaxElems)

Page(nav, doc, info, revealed) ==
    [nav |-> nav, doc |-> doc, info |-> info, revealed |-> revealed]

\* The detail pages given to extract_mayor_from_municipality alone: every
\* document as a page without the control, every document as the one the
\* control reveals, and the pages of a run (among them the page that cannot be
\* loaded and the one loaded at the second attempt)
PlainPages == {Page("ok", doc, "absent", <<>>) : doc \in Docs}

RevealPages ==
    {Page("ok", <<ElHeading, ElTitleRow>>, info, doc) :
        info \in {"inplace", "newtab"}, doc \in Docs}

\* The detail pages of the end-to-end scenario: A has a mailto link in the row
\* of the official, B shows "Електронна поща: b@y.bg" after the click on the
\* control, C has no address
PageA == Page("ok", <<ElHeading, ElTitleRow, ElMailto>>, "absent", <<>>)

PageB == Page("ok", <<ElHeading, ElTitleRow>>, "inplace",
              <<ElHeading, ElTitleRow, ElLabel, ElMailText>>)

PageC == Page("ok", <<ElHeading, ElTitleRow>>, "absent", <<>>)

\* a page that cannot be loaded, one loaded at the second attempt with no
\* heading, and one with two addresses in its text and a new window
PageDown == Page("down", <<>>, "absent", <<>>)

PageRetry == Page("retry", <<ElTitleMail, ElLabelMail>>, "click_error", <<>>)

PageTwo == Page("ok", <<ElHeading, ElLabel, ElTwoMails>>, "newtab", <<ElLabel, ElMailtoTwo>>)

\* the page B whose control opens a new window with the same content
PageNew == Page("ok", <<ElHeading, ElTitleRow>>, "newtab",
                <<ElHeading, ElTitleRow, ElLabel, ElMailText>>)

\* the detail pages a run is served
DetailPages == {PageA, PageB, PageC, PageDown, PageRetry, PageNew}

ExtractPages == PlainPages \cup RevealPages \cup DetailPages \cup {PageTwo}

\* the listing of the end-to-end scenario, page by page
ScenarioListing ==
    <<[anchors |-> <<AnchorA, AnchorB>>, next |-> "link"],
      [anchors |-> <<AnchorB, AnchorC>>, next |-> "none"]>>

ScenarioDetail(url) ==
    CASE url = Url("A") -> PageA
      [] url = Url("B") -> PageB
      [] OTHER -> PageC

(***************************************************************************)
(* main(): the state of one run                                            *)
(***************************************************************************)
\* MAX_PAGE_ITER as the repository sets it, and LAST_PAGE of mayor_scraper.py
MAX_PAGE_ITER == 20

LAST_PAGE == 9

VARIABLES
    prog,                    \* which script runs: "scraper1" or "mayor_scraper"
    max_page_iter,           \* the value of the configuration name MAX_PAGE_ITER
    pc,                      \* the place of main() the run is at
    page,                    \* main's page
    all_municipality_links,  \* main's list of [text, url]
    unique_links,            \* main's unique_links
    results,                 \* main's results
    counter,                 \* main's counter: the links taken from unique_links
    raised,                  \* an exception is leaving main()
    saved,                   \* the CSV file has been written
    quits,                   \* the calls of driver.quit()
    navigated,               \* the driver has been asked to load or click
    pagesCollected,          \* the calls of collect_municipality_links_from_page
    lastNext,                \* the next-page affordance of the listing page shown
    e2e,                     \* the site has so far served the end-to-end scenario
    window_handles,          \* len(driver.window_handles)
    active,                  \* the place of the driver's active window in it
    xpage, xout,             \* a detail page and what the extraction ends with
    cpage, cres              \* a listing page and the links collected from it

vars == <<prog, max_page_iter, pc, page, all_municipality_links, unique_links,
          results, counter, raised, saved, quits, navigated, pagesCollected,
          lastNext, e2e, window_handles, active, xpage, xout, cpage, cres>>

runVars == <<page, all_municipality_links, unique_links, results, counter, raised,
             saved, quits, navigated, pagesCollected, lastNext, e2e>>

pureVars == <<xpage, xout, cpage, cres>>

winVars == <<window_handles, active>>

\* the url the extraction alone is called with
XUrl == Url("A")

RunStart ==
    /\ page = 0
    /\ all_municipality_links = <<>>
    /\ unique_links = <<>>
    /\ results = <<>>
    /\ counter = 0
    /\ raised = FALSE
    /\ saved = FALSE
    /\ quits = 0
    /\ navigated = FALSE
    /\ pagesCollected = 0
    /\ lastNext = "unseen"
    /\ e2e = TRUE
    /\ window_handles = 1
    /\ active = 1

PureStart ==
    /\ xpage = PageC
    /\ xout = Raised(XUrl)
    /\ cpage = <<>>
    /\ cres = <<>>

\* the run of either script as the repository configures it
Init ==
    /\ prog \in Progs
    /\ max_page_iter = MAX_PAGE_ITER
    /\ pc = "start"
    /\ RunStart
    /\ PureStart

\* the values of MAX_PAGE_ITER of the runs with the configuration edited
ConfigCaps == {-1, 0, 1, 2}

InitConfig ==
    /\ prog \in Progs
    /\ max_page_iter \in ConfigCaps
    /\ pc = "start"
    /\ RunStart
    /\ PureStart

(***************************************************************************)
(* main(): the steps                                                       *)
(***************************************************************************)
\* driver.get(START_URL); a failure leaves the try block for the finally clause
OpenStart ==
    /\ pc = "start"
    /\ \E ok \in BOOLEAN :
          /\ pc' = IF ok THEN "loop" ELSE "finally"
          /\ raised' = ~ok
          /\ page' = IF ok THEN 1 ELSE page
          /\ e2e' = (e2e /\ ok)
    /\ navigated' = TRUE
    /\ UNCHANGED <<prog, max_page_iter, all_municipality_links, unique_links, results,
                   counter, saved, quits, pagesCollected, lastNext>>
    /\ UNCHANGED pureVars
    /\ UNCHANGED winVars

\* the loop test: "while page <= MAX_PAGE_ITER", with "and page <= LAST_PAGE"
\* in mayor_scraper.py
\* (mutant) scraper1.py loops with no page cap
LoopGuardNoCap(p, pg, cap) == p = "scraper1" \/ pg <= LAST_PAGE

LoopGuard(p, pg, cap) ==
    IF p = "scraper1" THEN pg <= cap ELSE pg <= cap /\ pg <= LAST_PAGE

\* "if page >= LAST_PAGE: break", which only mayor_scraper.py has
LastPageBreak(p, pg) == p = "mayor_scraper" /\ pg >= LAST_PAGE

\* all_municipality_links after "for txt, url in page_links: if url not in existing"
\* (mutant) the links of the page are appended without the test
MergeNoCheck(links, page_links) == links \o page_links

Merge(links, page_links) == AppendUnseen(links, page_links)

\* One iteration of the pagination loop on the listing page shown: collect its
\* links, merge the new ones, then (unless mayor_scraper.py is at its
\* LAST_PAGE) click_next_page; no click ends the loop
ListingIteration ==
    /\ pc = "loop"
    /\ LoopGuard(prog, page, max_page_iter)
    /\ \E anchors \in ListingPages :
          /\ all_municipality_links' =
                Merge(all_municipality_links, collect_municipality_links_from_page(anchors))
          /\ pagesCollected' = pagesCollected + 1
          /\ \E next \in NextKinds :
                LET clicked == ~LastPageBreak(prog, page) /\ click_next_page(next)
                IN  /\ lastNext' = next
                    /\ page' = IF clicked THEN page + 1 ELSE page
                    /\ pc' = IF clicked THEN "loop" ELSE "dedup"
                    /\ e2e' = /\ e2e
                              /\ page <= Len(ScenarioListing)
                              /\ ScenarioListing[page] = [anchors |-> anchors, next |-> next]
    /\ UNCHANGED <<prog, max_page_iter, unique_links, results, counter, raised, saved,
                   quits, navigated>>
    /\ UNCHANGED pureVars
    /\ UNCHANGED winVars

\* driver.page_source raises inside collect_municipality_links_from_page:
\* nothing in the loop catches it
ListingFault ==
    /\ pc = "loop"
    /\ LoopGuard(prog, page, max_page_iter)
    /\ pc' = "finally"
    /\ raised' = TRUE
    /\ e2e' = FALSE
    /\ UNCHANGED <<prog, max_page_iter, page, all_municipality_links, unique_links,
                   results, counter, saved, quits, navigated, pagesCollected, lastNext>>
    /\ UNCHANGED pureVars
    /\ UNCHANGED winVars

\* the loop test fails
LoopExit ==
    /\ pc = "loop"
    /\ ~LoopGuard(prog, page, max_page_iter)
    /\ pc' = "dedup"
    /\ UNCHANGED <<prog, max_page_iter>>
    /\ UNCHANGED runVars
    /\ UNCHANGED pureVars
    /\ UNCHANGED winVars

\* the second pass over all_municipality_links, then results = [], counter = 0
Dedup ==
    /\ pc = "dedup"
    /\ unique_links' = AppendUnseen(<<>>, all_municipality_links)
    /\ results' = <<>>
    /\ counter' = 0
    /\ pc' = "visit"
    /\ UNCHANGED <<prog, max_page_iter, page, all_municipality_links, raised, saved,
                   quits, navigated, pagesCollected, lastNext, e2e>>
    /\ UNCHANGED pureVars
    /\ UNCHANGED winVars

\* results after the try/except around one extraction: the returned info, with
\* the link's text as municipality when the page gave none, is appended; an
\* exception is printed
\* (mutant) a row with empty fields is appended for a failed extraction
AfterExtractionKeepRow(res, link, out) ==
    Append(res, [out.result EXCEPT
                    !.municipality = IF out.raised \/ @ = <<>> THEN link.text ELSE @])

\* (mutant) the newest row is put in front of the others
AfterExtractionPrepend(res, link, out) ==
    IF out.raised
    THEN res
    ELSE <<[out.result EXCEPT !.municipality = IF @ = <<>> THEN link.text ELSE @]>> \o res

\* (mutant) a failed extraction empties results
AfterExtractionReset(res, link, out) ==
    IF out.raised
    THEN <<>>
    ELSE Append(res, [out.result EXCEPT
                         !.municipality = IF @ = <<>> THEN link.text ELSE @])

AfterExtraction(res, link, out) ==
    IF out.raised
    THEN res
    ELSE Append(res, [out.result EXCEPT
                         !.municipality = IF @ = <<>> THEN link.text ELSE @])

\* one iteration of "for txt, url in unique_links" on the detail page served
Visit ==
    /\ pc = "visit"
    /\ counter < Len(unique_links)
    /\ \E d \in DetailPages :
          LET link == unique_links[counter + 1]
          IN  /\ HandlesAfter(prog, d, window_handles) <= MaxWindows
              /\ results' = AfterExtraction(results, link, Extract(prog, link.url, d))
              /\ e2e' = (e2e /\ d = ScenarioDetail(link.url))
              /\ window_handles' = HandlesAfter(prog, d, window_handles)
              /\ active' = ActiveAfter(prog, d, window_handles, active)
    /\ counter' = counter + 1
    /\ navigated' = TRUE
    /\ lastNext' = "unseen"
    /\ UNCHANGED <<prog, max_page_iter, pc, page, all_municipality_links, unique_links,
                   raised, saved, quits, pagesCollected>>
    /\ UNCHANGED pureVars

\* the for loop is through
VisitEnd ==
    /\ pc = "visit"
    /\ counter = Len(unique_links)
    /\ pc' = "save"
    /\ UNCHANGED <<prog, max_page_iter>>
    /\ UNCHANGED runVars
    /\ UNCHANGED pureVars
    /\ UNCHANGED winVars

\* the CSV file is written, or open()/writerow raises
\* (mutant) a failure of the write leaves main() past the finally clause
SaveSkipsFinally ==
    /\ pc = "save"
    /\ \E ok \in BOOLEAN :
          /\ saved' = ok
          /\ raised' = ~ok
          /\ pc' = IF ok THEN "finally" ELSE "exit"
    /\ UNCHANGED <<prog, max_page_iter, page, all_municipality_links, unique_links,
                   results, counter, quits, navigated, pagesCollected, lastNext, e2e>>
    /\ UNCHANGED pureVars
    /\ UNCHANGED winVars

Save ==
    /\ pc = "save"
    /\ \E ok \in BOOLEAN :
          /\ saved' = ok
          /\ raised' = ~ok
    /\ pc' = "finally"
    /\ UNCHANGED <<prog, max_page_iter, page, all_municipality_links, unique_links,
                   results, counter, quits, navigated, pagesCollected, lastNext, e2e>>
    /\ UNCHANGED pureVars
    /\ UNCHANGED winVars

\* finally: driver.quit()
Quit ==
    /\ pc = "finally"
    /\ quits' = quits + 1
    /\ pc' = "exit"
    /\ UNCHANGED <<prog, max_page_iter, page, all_municipality_links, unique_links,
                   results, counter, raised, saved, navigated, pagesCollected, lastNext, e2e>>
    /\ UNCHANGED pureVars
    /\ UNCHANGED winVars

Next ==
    \/ OpenStart
    \/ ListingIteration
    \/ ListingFault
    \/ LoopExit
    \/ Dedup
    \/ Visit
    \/ VisitEnd
    \/ Save
    \/ Quit

Spec == Init /\ [][Next]_vars

SpecConfig == InitConfig /\ [][Next]_vars

\* main() is one sequential thread: a statement that can run does run
SpecLive == Init /\ [][Next]_vars /\ WF_vars(Next)

(***************************************************************************)
(* extract_mayor_from_municipality alone, on every page of ExtractPages    *)
(***************************************************************************)
InitExtract ==
    /\ prog \in Progs
    /\ max_page_iter = MAX_PAGE_ITER
    /\ pc = "extract"
    /\ RunStart
    /\ xpage \in ExtractPages
    /\ xout = Raised(XUrl)
    /\ cpage = <<>>
    /\ cres = <<>>

ExtractCall ==
    /\ pc = "extract"
    /\ xout' = Extract(prog, XUrl, xpage)
    /\ window_handles' = HandlesAfter(prog, xpage, window_handles)
    /\ active' = ActiveAfter(prog, xpage, window_handles, active)
    /\ pc' = "extracted"
    /\ UNCHANGED <<prog, max_page_iter, xpage, cpage, cres>>
    /\ UNCHANGED runVars

NextExtract == ExtractCall

SpecExtract == InitExtract /\ [][NextExtract]_vars

(***************************************************************************)
(* collect_municipality_links_from_page alone, on every page of            *)
(* CollectPages, and again after a change to the page's other anchors      *)
(***************************************************************************)
InitCollect ==
    /\ prog \in Progs
    /\ max_page_iter = MAX_PAGE_ITER
    /\ pc = "collect"
    /\ RunStart
    /\ xpage = PageC
    /\ xout = Raised(XUrl)
    /\ cpage \in CollectPages
    /\ cres = <<>>

\* an anchor whose text lacks the marker phrase in any case
Other(a) == ~Contains(Lower(a.text), marker_lower)

Recollect(anchors) ==
    /\ cpage' = anchors
    /\ cres' = collect_municipality_links_from_page(anchors)
    /\ pc' = "collected"
    /\ UNCHANGED <<prog, max_page_iter, xpage, xout>>
    /\ UNCHANGED runVars
    /\ UNCHANGED winVars

CollectCall ==
    /\ pc = "collect"
    /\ Recollect(cpage)

\* the page gets one more anchor without the phrase, at any place
AddOther ==
    /\ pc = "collected"
    /\ Len(cpage) < MaxPageAnchors
    /\ \E i \in 0..Len(cpage), a \in {b \in CollectAnchors : Other(b)} :
          Recollect(SubSeq(cpage, 1, i) \o <<a>> \o SubSeq(cpage, i + 1, Len(cpage)))

\* the page loses an anchor without the phrase
RemoveOther ==
    /\ pc = "collected"
    /\ \E i \in 1..Len(cpage) :
          /\ Other(cpage[i])
          /\ Recollect(SubSeq(cpage, 1, i - 1) \o SubSeq(cpage, i + 1, Len(cpage)))

\* an anchor without the phrase changes place with its neighbour
MoveOther ==
    /\ pc = "collected"
    /\ \E i \in 1..(Len(cpage) - 1) :
          /\ Other(cpage[i]) \/ Other(cpage[i + 1])
          /\ Recollect([cpage EXCEPT ![i] = cpage[i + 1], ![i + 1] = cpage[i]])

NextCollect ==
    \/ CollectCall
    \/ AddOther
    \/ RemoveOther
    \/ MoveOther

SpecCollect == InitCollect /\ [][NextCollect]_vars

(***************************************************************************)
(* Properties                                                              *)
(***************************************************************************)
\* C9: the list collect_municipality_links_from_page returns has no two entries
\* with the same absolute URL; it holds, in page order, exactly the anchors with
\* an href whose stripped text has the marker phrase (in any case) and whose
\* URL no earlier such anchor has, each with its own stripped text; and a
\* change to the anchors without the phrase (one added, removed or moved)
\* leaves the list as it was.
IsEntry(a) == a.href.origin # "none" /\ ~Other(a)

AbsUrl(a) == IF a.href.origin = "" THEN Url(a.href.path) ELSE a.href

FirstSeen(anchors) ==
    {i \in 1..Len(anchors) :
        /\ IsEntry(anchors[i])
        /\ \A j \in 1..(i - 1) : IsEntry(anchors[j]) => AbsUrl(anchors[j]) # AbsUrl(anchors[i])}

CollectedFirstSeen ==
    pc = "collected" =>
        /\ \A i, j \in 1..Len(cres) : cres[i].url = cres[j].url => i = j
        /\ Len(cres) = Cardinality(FirstSeen(cpage))
        /\ \A k \in 1..Len(cres) :
              \E i \in FirstSeen(cpage) :
                  /\ Cardinality({j \in FirstSeen(cpage) : j <= i}) = k
                  /\ cres[k].url = AbsUrl(cpage[i])
                  /\ cres[k].text = Strip(cpage[i].text)

C9_CollectDedup ==
    /\ [](CollectedFirstSeen)
    /\ [][pc = "collected" /\ pc' = "collected" => cres' = cres]_vars

\* a page with the same URL under two texts and an anchor without the phrase
\* before them has been collected, and then changed
C9_Witness ==
    /\ pc = "collected"
    /\ cpage = <<AnchorB, AnchorB2, AnchorNav>>
    /\ cres = <<[text |-> LinkText(<<"B">>), url |-> Url("B")]>>

\* C1: when the loop over unique_links is through, results holds one record for
\* each link, in order, a link whose extraction raised included.
C1_EveryLinkHasRecord ==
    pc = "save" =>
        /\ Len(results) = Len(unique_links)
        /\ \A i \in 1..Len(unique_links) : results[i].url = unique_links[i].url

\* C2: on the end-to-end scenario (listing page 1 with A and B, page 2 with B
\* and C; A with a mailto link in the official's row, B with the address shown
\* after the click, C with none) the run ends with the rows A, B, C and the
\* emails [a@x.bg], [b@y.bg], [].
C2_EndToEnd ==
    (pc = "save" /\ e2e) =>
        /\ [i \in 1..Len(results) |-> results[i].url] = <<Url("A"), Url("B"), Url("C")>>
        /\ [i \in 1..Len(results) |-> results[i].emails] = <<(<<E1>>), (<<E2>>), (<<>>)>>

\* C3: the pagination loop is left after page k only when page k has no
\* next-page affordance that can be clicked, or k is the configured cap.
C3_WalkEndsAtLastPageOrCap ==
    (pc = "dedup" /\ pagesCollected < max_page_iter) => lastNext \notin {"link", "xpath"}

\* C4: links are never collected from more than MAX_PAGE_ITER listing pages;
\* inside the loop page is one more than the pages collected and at most the
\* cap plus one, and the loop is left with no exception raised.
C4_PageCeiling ==
    /\ pagesCollected <= max_page_iter
    /\ pc = "loop" => page = pagesCollected + 1 /\ page <= max_page_iter + 1
    /\ pc = "dedup" => ~raised

\* scraper1.py has left the loop at the cap, the affordance still there
C4_Witness ==
    /\ pc = "dedup"
    /\ prog = "scraper1"
    /\ pagesCollected = MAX_PAGE_ITER
    /\ lastNext = "link"
    /\ ~raised

\* C5: when the first strategy finds an address (in scraper1.py the markup next
\* to the title nodes, in mayor_scraper.py what follows the label), the
\* returned emails are exactly what it found, whatever other mailto links and
\* addresses the page has.
C5_StructuredWins ==
    (pc = "extracted" /\ ~xout.raised) =>
        /\ (prog = "scraper1" /\ StructuredEmails(xpage.doc) # {}) =>
              /\ Range(xout.result.emails) = StructuredEmails(xpage.doc)
              /\ Len(xout.result.emails) = Cardinality(StructuredEmails(xpage.doc))
        /\ (prog = "mayor_scraper" /\ LabelEmail(Reparsed(xpage)) # <<>>) =>
              xout.result.emails = <<LabelEmail(Reparsed(xpage))>>

\* the title's markup has b@y.bg, a mailto link elsewhere has a@x.bg
C5_Witness ==
    /\ pc = "extracted"
    /\ prog = "scraper1"
    /\ xpage.doc = <<ElTitleMail, ElMailto, ElMailText>>
    /\ xout.result.emails = <<E2>>

\* C6: a page that loads and has no title marker, no mailto link and no address
\* in any text or markup gives a result with no emails, and no exception.
Bare(doc) ==
    \A i \in 1..Len(doc) :
        /\ ~Contains(doc[i].text, KMET)
        /\ ~Searches(doc[i].text)
        /\ ~Searches(doc[i].html)
        /\ ~Contains(doc[i].href, MAILTO)

C6_GracefulDegradation ==
    (pc = "extracted" /\ xpage.nav # "down" /\ Bare(xpage.doc) /\ Bare(xpage.revealed)) =>
        /\ ~xout.raised
        /\ xout.result.emails = <<>>

C6_Witness ==
    /\ pc = "extracted"
    /\ prog = "scraper1"
    /\ xpage = Page("ok", <<ElHeading, ElLink, ElLabel>>, "absent", <<>>)
    /\ xout = Returned([EmptyResult(XUrl) EXCEPT !.municipality = <<"A">>])

\* C7: when driver.get(url) fails at every attempt, the call still returns the
\* record with empty fields and the url.
C7_NavFaultGivesEmptyRecord ==
    (pc = "extracted" /\ xpage.nav = "down") =>
        /\ ~xout.raised
        /\ xout.result.mayor = <<>>
        /\ xout.result.emails = <<>>
        /\ xout.result.url = XUrl

\* C8: every element of the returned emails matches email_re as a whole.
FullMatch(s) == MatchAt(s, 1) = Len(s) + 1

C8_EmailsAreAddresses ==
    (pc = "extracted" /\ ~xout.raised) =>
        \A i \in 1..Len(xout.result.emails) : FullMatch(xout.result.emails[i])

\* C10: with a page cap of zero or less the driver is never asked to load or
\* click anything.
C10_BadCapNeverNavigates == max_page_iter <= 0 => ~navigated

\* C11: all through the detail phase the URLs of results are a subsequence of
\* the URLs of unique_links: unique_links has no URL twice, every row's URL is
\* the URL of a link already taken, and the rows stand in the order of their
\* links.
LinkIndex(u) == CHOOSE k \in 1..Len(unique_links) : unique_links[k].url = u

C11_ResultOrder ==
    pc \in {"visit", "save"} =>
        /\ \A i, j \in 1..Len(unique_links) :
              unique_links[i].url = unique_links[j].url => i = j
        /\ \A i \in 1..Len(results) :
              \E k \in 1..counter : unique_links[k].url = results[i].url
        /\ \A i, j \in 1..Len(results) :
              i < j => LinkIndex(results[i].url) < LinkIndex(results[j].url)

\* three links, the extraction of the second raised: the rows are A and C
C11_Witness ==
    /\ pc = "visit"
    /\ [i \in 1..Len(unique_links) |-> unique_links[i].url] = <<Url("A"), Url("B"), Url("C")>>
    /\ [i \in 1..Len(results) |-> results[i].url] = <<Url("A"), Url("C")>>

\* C12: the returned emails have each address once, in the order in which the
\* addresses are first met on the page: for scraper1.py, in the markup of the
\* title nodes scanned, else in the mailto links, else in the page text, each
\* read from first to last.
RECURSIVE FirstOccurrences(_, _)
FirstOccurrences(q, seen) ==
    IF q = <<>> THEN <<>>
    ELSE IF Head(q) \in seen THEN FirstOccurrences(Tail(q), seen)
    ELSE <<Head(q)>> \o FirstOccurrences(Tail(q), seen \cup {Head(q)})

RECURSIVE ScanOrder(_)
ScanOrder(nodes) ==
    IF nodes = <<>> THEN <<>>
    ELSE LET c == Candidate(Head(nodes))
         IN  FindAllFrom(Head(nodes).html, 1)
                 \o (IF c # <<>> /\ Len(c) < NAME_MAX THEN <<>> ELSE ScanOrder(Tail(nodes)))

MailtoOrder(doc) ==
    LET hits == SelectSeq(Anchors(doc),
                    LAMBDA a : StartsAt(a.href, 1, MAILTO) /\ MatchAt(MailtoAddr(a.href), 1) # 0)
    IN  [i \in 1..Len(hits) |-> MailtoAddr(hits[i].href)]

DiscoveryOrder(doc) ==
    IF ScanOrder(mayor_elements(doc)) # <<>> THEN ScanOrder(mayor_elements(doc))
    ELSE IF MailtoOrder(doc) # <<>> THEN MailtoOrder(doc)
    ELSE FindAllFrom(PageText(doc), 1)

C12_EmailsInDiscoveryOrder ==
    (pc = "extracted" /\ ~xout.raised) =>
        /\ \A i, j \in 1..Len(xout.result.emails) :
              xout.result.emails[i] = xout.result.emails[j] => i = j
        /\ prog = "scraper1" =>
              xout.result.emails = FirstOccurrences(DiscoveryOrder(xpage.doc), {})

\* C13: no step of the listing phase (opening the start URL, one iteration of
\* the pagination loop) lets an exception leave main(): the run stays in the
\* loop or goes on to the detail phase, where the links accumulated so far are
\* visited and the rows written.
ListingStepAbsorbs ==
    pc \in {"start", "loop"} => (raised' = FALSE /\ pc' \in {"loop", "dedup"})

C13_ListingFaultAbsorbed == [][ListingStepAbsorbs]_vars

\* C14: while a link is left, the step of the loop over unique_links takes the
\* next link and stays in the loop with no exception leaving main(), whether
\* or not the extraction raised; results either stays as it was (the
\* extraction raised) or gets one row for that link at its end; and the loop
\* is left only when every link has been taken.
VisitStepGoesOn ==
    (pc = "visit" /\ counter < Len(unique_links)) =>
        /\ pc' = "visit"
        /\ counter' = counter + 1
        /\ raised' = FALSE
        /\ unique_links' = unique_links
        /\ \/ results' = results
           \/ /\ Len(results') = Len(results) + 1
              /\ SubSeq(results', 1, Len(results)) = results
              /\ results'[Len(results')].url = unique_links[counter + 1].url

C14_BadPageDoesNotStopRun ==
    /\ [](pc = "save" => counter = Len(unique_links))
    /\ [][VisitStepGoesOn]_vars

\* three links, the extraction of the second raised, the third was still
\* extracted and the row of the first is still there
C14_Witness ==
    /\ pc = "save"
    /\ [i \in 1..Len(unique_links) |-> unique_links[i].url] = <<Url("C"), Url("B"), Url("A")>>
    /\ [i \in 1..Len(results) |-> results[i].url] = <<Url("C"), Url("A")>>

\* C15: all_municipality_links never has two entries with the same URL; a step
\* of the run only adds entries at its end, so the entries already there keep
\* their place and text; and the second pass gives unique_links equal to
\* all_municipality_links.
AccumulatorOnlyGrows ==
    /\ Len(all_municipality_links') >= Len(all_municipality_links)
    /\ SubSeq(all_municipality_links', 1, Len(all_municipality_links)) = all_municipality_links

C15_AccumulatorInvariant ==
    /\ [](\A i, j \in 1..Len(all_municipality_links) :
              all_municipality_links[i].url = all_municipality_links[j].url => i = j)
    /\ [](pc \in {"visit", "save"} => unique_links = all_municipality_links)
    /\ [][AccumulatorOnlyGrows]_vars

\* the two listing pages of the scenario, B on both, have been merged
C15_Witness ==
    /\ pc = "visit"
    /\ e2e
    /\ pagesCollected = 2
    /\ all_municipality_links =
          <<[text |-> LinkText(<<"A">>), url |-> Url("A")],
            [text |-> LinkText(<<"B">>), url |-> Url("B")],
            [text |-> LinkText(<<"C">>), url |-> Url("C")]>>
    /\ unique_links = all_municipality_links

\* C16: an iteration of the pagination loop on a page whose next-page element
\* is absent, cannot be looked for, or cannot be clicked ends the loop with no
\* exception leaving main(): the run goes to the second pass with every link
\* accumulated before still in all_municipality_links, and none is lost on
\* the way to the detail phase.
NoNextKinds == {"none", "find_error", "click_error"}

FailedNextEndsLoop ==
    (pc = "loop" /\ pagesCollected' = pagesCollected + 1 /\ lastNext' \in NoNextKinds) =>
        /\ pc' = "dedup"
        /\ raised' = FALSE
        /\ page' = page
        /\ \A i \in 1..Len(all_municipality_links) :
              all_municipality_links'[i] = all_municipality_links[i]

C16_NextFailureEndsPagination ==
    /\ [][FailedNextEndsLoop]_vars
    /\ []((pc = "dedup" /\ lastNext \in NoNextKinds) => ~raised)
    /\ [][pc = "dedup" => (pc' = "visit" /\ all_municipality_links' = all_municipality_links
                           /\ Len(unique_links') = Len(all_municipality_links))]_vars

\* the click on page 2 raised; the two links collected are kept
C16_Witness ==
    /\ pc = "dedup"
    /\ lastNext = "click_error"
    /\ pagesCollected = 2
    /\ Len(all_municipality_links) = 2
    /\ ~raised

\* C17: no call of extract_mayor_from_municipality changes the driver's active
\* window: after each detail page of a run the active window is the one that
\* was active before it.
VisitKeepsActiveWindow == pc = "visit" => active' = active

C17_ActiveWindowRestored == [][VisitKeepsActiveWindow]_vars

\* C18: when scraper1.py finds no address next to a title node and none in a
\* mailto link, and the page text has addresses, the returned emails are the
\* one address that comes first in the page text.
C18_PageTextFirstMatchOnly ==
    (/\ pc = "extracted"
     /\ prog = "scraper1"
     /\ ~xout.raised
     /\ StructuredEmails(xpage.doc) = {}
     /\ MailtoEmails(xpage.doc) = {}
     /\ FindAllFrom(PageText(xpage.doc), 1) # <<>>) =>
        xout.result.emails = <<FindAllFrom(PageText(xpage.doc), 1)[1]>>

\* C19: when the pagination loop is left, the successful clicks on the
\* next-page element (page - 1, since page starts at 1 and is incremented
\* after each of them) are one fewer than the listing pages collected: no
\* click is left without a collection on the page it leads to.
C19_ClicksOneFewerThanPages == pc = "dedup" => page - 1 = pagesCollected - 1

\* C20: in scraper1.py the returned emails of a page stay the same when the
\* sibling text next to one of its title nodes (the name candidate) is taken
\* away, everything else on the page being equal.
WithoutCandidate(d, i) ==
    [d EXCEPT !.doc = [d.doc EXCEPT ![i] = [@ EXCEPT !.sib = <<>>, !.psib = <<>>]]]

C20_NameDoesNotHideEmails ==
    (pc = "extracted" /\ prog = "scraper1" /\ ~xout.raised) =>
        \A i \in 1..Len(xpage.doc) :
            Extract1(XUrl, WithoutCandidate(xpage, i)).result.emails = xout.result.emails

\* C21: on every path of main() driver.quit() is called in the end, and
\* exactly once: it is never called twice, main() is left exactly when it has
\* been called, and after it the run takes no further step (no load, click or
\* read of the browser).
NoStepAfterQuit == quits = 0

C21_DriverQuitOnce ==
    /\ [](quits <= 1)
    /\ [](pc = "exit" <=> quits = 1)
    /\ [][NoStepAfterQuit]_vars
    /\ <>(quits = 1)

\* the write of the CSV file failed with rows collected; the driver was quit
C21_Witness ==
    /\ pc = "exit"
    /\ quits = 1
    /\ raised
    /\ ~saved
    /\ Len(results) >= 1

=============================================================================
